---- MODULE Spec2Model ----
(***************************************************************************)
(* A model of src/app.py: the in-memory Auth Store (register, login) and   *)
(* the Summarize Adapter (summarize) of the Flask backend.                 *)
(*                                                                         *)
(* Text is modelled as a sequence of one-character strings; "LF" and "TAB" *)
(* stand for the line feed and the tab character.  A fixed literal of a    *)
(* response message is one element of the message sequence.                *)
(***************************************************************************)
EXTENDS Integers, Sequences, FiniteSets, TLC

\* ------------------------------------------------------------------ bounds

\* Number of distinct salts generate_password_hash may draw.
MaxSalt == 2
\* Longest tail that follows the host part of an enumerated URL.
MaxRest == 2
\* Longest enumerated error text over the alphabet of ErrChars.
MaxMsg == 3

\* ------------------------------------------------------------------ text

Uppers == <<"A", "B", "C", "D", "E", "F", "G", "H", "I", "J", "K", "L", "M", "N", "O", "P", "Q", "R", "S", "T", "U", "V", "W", "X", "Y", "Z">>
Lowers == <<"a", "b", "c", "d", "e", "f", "g", "h", "i", "j", "k", "l", "m", "n", "o", "p", "q", "r", "s", "t", "u", "v", "w", "x", "y", "z">>

\* re.IGNORECASE folds a character to its lower-case form before comparing.
Lower(c) ==
    IF \E i \in 1..Len(Uppers) : Uppers[i] = c
    THEN Lowers[CHOOSE i \in 1..Len(Uppers) : Uppers[i] = c]
    ELSE c

\* str.isspace() of the characters of the model.
IsSpace(c) == c \in {" ", "LF", "TAB"}

RECURSIVE LStrip(_)
LStrip(s) == IF s # <<>> /\ IsSpace(Head(s)) THEN LStrip(Tail(s)) ELSE s

RECURSIVE RStrip(_)
RStrip(s) ==
    IF s # <<>> /\ IsSpace(s[Len(s)]) THEN RStrip(SubSeq(s, 1, Len(s) - 1)) ELSE s

\* str.strip()
Strip(s) == RStrip(LStrip(s))

\* Python's `needle in s` for strings.
Contains(s, needle) ==
    \E i \in 1..(Len(s) - Len(needle) + 1) :
        SubSeq(s, i, i + Len(needle) - 1) = needle

\* All texts over alphabet A of length at most n.
RECURSIVE SeqsUpTo(_, _)
SeqsUpTo(A, n) ==
    IF n = 0 THEN {<<>>}
    ELSE LET S == SeqsUpTo(A, n - 1)
         IN  S \cup {Append(s, c) : s \in {x \in S : Len(x) = n - 1}, c \in A}

\* ------------------------------------------------------------------ YOUTUBE_RE

LitHttp == <<"h", "t", "t", "p", ":", "/", "/">>
LitHttps == <<"h", "t", "t", "p", "s", ":", "/", "/">>
LitWww == <<"w", "w", "w", ".">>
LitYoutubeCom == <<"y", "o", "u", "t", "u", "b", "e", ".", "c", "o", "m", "/">>
LitYoutuBe == <<"y", "o", "u", "t", "u", ".", "b", "e", "/">>

\* The pattern's literal lit matches s at position i, ignoring case.
MatchLit(s, i, lit) ==
    /\ i + Len(lit) - 1 <= Len(s)
    /\ \A k \in 1..Len(lit) : Lower(s[i + k - 1]) = lit[k]

\* Positions after the optional group (https?://)? tried from position i.
SchemeEnds(s, i) ==
    {i} \cup {i + Len(l) : l \in {l \in {LitHttp, LitHttps} : MatchLit(s, i, l)}}

\* Positions after the optional group (www\.)? tried from position i.
WwwEnds(s, i) ==
    {i} \cup (IF MatchLit(s, i, LitWww) THEN {i + Len(LitWww)} ELSE {})

\* Positions after the group ((youtube\.com/)|(youtu\.be/)) from position i.
HostEnds(s, i) ==
    {i + Len(l) : l \in {l \in {LitYoutubeCom, LitYoutuBe} : MatchLit(s, i, l)}}

\* The trailing .+ at position i: one character that is not a line feed.
DotPlusLoose(s, i) == i <= Len(s) + 1
DotPlus(s, i) == i <= Len(s) /\ s[i] # "LF"

\* YOUTUBE_RE.match(url): the pattern anchored at the start of url.
YoutubeReMatch(url) ==
    \E a \in SchemeEnds(url, 1) :
        \E b \in WwwEnds(url, a) :
            \E c \in HostEnds(url, b) : DotPlus(url, c)

\* bool(url and YOUTUBE_RE.match(url))
is_valid_youtube_url_any(url) == url # <<>>
is_valid_youtube_url(url) == url # <<>> /\ YoutubeReMatch(url)

\* ------------------------------------------------------------------ password hashes

Salts == 1..MaxSalt

\* The one-way digest of a salted password, as an opaque term.
Digest(salt, password) == <<"scrypt", salt, password>>

\* werkzeug.security.generate_password_hash with the salt it drew.
generate_password_hash(password, salt) ==
    [salt |-> salt, digest |-> Digest(salt, password)]

\* werkzeug.security.check_password_hash
check_password_hash_any(pwhash, password) == TRUE
check_password_hash(pwhash, password) ==
    pwhash.digest = Digest(pwhash.salt, password)

\* ------------------------------------------------------------------ JSON values

Absent == [t |-> "absent", v |-> <<>>]
Null == [t |-> "null", v |-> <<>>]
\* A JSON number, by its digits.
Num(digits) == [t |-> "num", v |-> <<digits>>]
Str(s) == [t |-> "str", v |-> s]

\* Python truthiness of a decoded JSON field.
Truthy(val) ==
    CASE val.t = "str" -> val.v # <<>>
      [] val.t = "num" -> val.v # <<"0">>
      [] OTHER -> FALSE

\* A request body.  k: "none" (no JSON, or JSON that does not parse: get_json
\* returns None), "falsy" (JSON null, {}, [], 0 or ""), "nondict" (a non-empty
\* JSON array, string or number), "obj" (an object with at least one field).
Body(k, username, password, url, prompt) ==
    [k |-> k, username |-> username, password |-> password,
     url |-> url, prompt |-> prompt]

AuthBody(username, password) == Body("obj", username, password, Absent, Absent)
SumBody(url, prompt) == Body("obj", Absent, Absent, url, prompt)
NoJsonBody == Body("none", Absent, Absent, Absent, Absent)
FalsyBody == Body("falsy", Absent, Absent, Absent, Absent)
NonDictBody == Body("nondict", Absent, Absent, Absent, Absent)

\* data.get(field, default)
Get(val, default) == IF val.t = "absent" THEN Str(default) ELSE val

\* ------------------------------------------------------------------ responses

NoText == <<>>

\* jsonify({...}), code
Json(code, status, message) ==
    [json |-> TRUE, code |-> code, status |-> status, message |-> message,
     summary |-> NoText, url |-> NoText]

JsonSummary(summary, url) ==
    [json |-> TRUE, code |-> 200, status |-> "success", message |-> NoText,
     summary |-> summary, url |-> url]

\* An exception that leaves the view function: Flask answers with its own
\* 500 page, which is no JSON body of the application.
Unhandled(exc) ==
    [json |-> FALSE, code |-> 500, status |-> "", message |-> <<exc>>,
     summary |-> NoText, url |-> NoText]

NoResp ==
    [json |-> FALSE, code |-> 0, status |-> "", message |-> NoText,
     summary |-> NoText, url |-> NoText]

MsgInvalidJson == <<"Invalid or missing JSON body">>
MsgRequired == <<"username and password are required">>
MsgExists == <<"User already exists">>
MsgRegistered == <<"User registered">>
MsgNotFound == <<"User not found">>
MsgIncorrect == <<"Incorrect password">>
MsgLoginOk == <<"Login successful">>
MsgNoClient == <<"Gemini client not initialized. Check GEMINI_API_KEY and that google-genai is installed.">>
MsgMissingUrl == <<"Missing 'url' field">>
MsgInvalidUrl == <<"Invalid YouTube URL">>
MsgGeminiError == <<"Gemini API error: ">>
MsgQuota == <<"Quota exceeded for Gemini API. Free-tier/video processing can use many tokens. Consider enabling billing, switching to a cheaper model, or using transcripts instead. Raw error: ">>
DefaultPrompt == <<"Summarize the content of this YouTube video in three bullet points.">>

NeedleResourceExhausted == <<"R", "E", "S", "O", "U", "R", "C", "E", "_", "E", "X", "H", "A", "U", "S", "T", "E", "D">>
NeedleQuotaExceeded == <<"Q", "u", "o", "t", "a", " ", "e", "x", "c", "e", "e", "d", "e", "d">>
Needle429 == <<"4", "2", "9">>

\* ------------------------------------------------------------------ state

Threads == {1, 2}

VARIABLES
    genai_errors,   \* "None" or "module": the name bound by the guarded import
    client,         \* "None" or "Client": the handle made once at start-up
    users,          \* memory_db["users"]: username -> password hash
    pc,             \* per worker: "idle", "reg_write", "calling" or "done"
    req,            \* per worker: the request being handled
    loc,            \* per worker: the handler's local variables
    contents,       \* per worker: the payload handed to generate_content
    calls,          \* per worker: generate_content calls made for the request
    resp,           \* per worker: the response of the request
    created         \* history: <<username, password>> of every 201 of register

vars == <<genai_errors, client, users, pc, req, loc, contents, calls, resp, created>>

NoReq == [kind |-> "none", body |-> NoJsonBody]
NoLoc == [username |-> NoText, password |-> Absent, youtube_url |-> NoText,
          prompt_text |-> NoText, exc_type |-> "", err_str |-> NoText]
NoContents == <<>>

\* The process after the module's top-level code ran: the import of google.genai
\* succeeded or not; genai.Client() succeeded only if it did.
Init ==
    /\ genai_errors \in {"None", "module"}
    /\ client \in {"None", "Client"}
    /\ (genai_errors = "None" => client = "None")
    /\ users = <<>>
    /\ pc = [t \in Threads |-> "idle"]
    /\ req = [t \in Threads |-> NoReq]
    /\ loc = [t \in Threads |-> NoLoc]
    /\ contents = [t \in Threads |-> NoContents]
    /\ calls = [t \in Threads |-> 0]
    /\ resp = [t \in Threads |-> NoResp]
    /\ created = {}

\* The handler of worker t returns response r.
Return(t, kind, body, r) ==
    /\ pc' = [pc EXCEPT ![t] = "done"]
    /\ req' = [req EXCEPT ![t] = [kind |-> kind, body |-> body]]
    /\ resp' = [resp EXCEPT ![t] = r]

\* memory_db["users"][username] = pwhash
Store(username, pwhash) ==
    [n \in DOMAIN users \cup {username} |->
        IF n = username THEN pwhash ELSE users[n]]

\* ------------------------------------------------------------------ register

\* username in memory_db["users"]
UserExistsNever(username) == FALSE
UserExists(username) == username \in DOMAIN users

\* register(), from get_json to the membership test: every early return, or
\* the step to the write of the record.
RegisterBegin(t, body) ==
    /\ pc[t] = "idle"
    /\ UNCHANGED <<genai_errors, client, users, contents, calls, created>>
    /\ IF body.k \in {"none", "falsy"}
       THEN Return(t, "register", body, Json(400, "error", MsgInvalidJson))
            /\ UNCHANGED loc
       ELSE IF body.k = "nondict" \/ Get(body.username, NoText).t # "str"
       THEN Return(t, "register", body, Unhandled("AttributeError"))
            /\ UNCHANGED loc
       ELSE LET username == Strip(Get(body.username, NoText).v)
                password == Get(body.password, NoText)
            IN  IF username = NoText \/ ~Truthy(password)
                THEN Return(t, "register", body, Json(400, "error", MsgRequired))
                     /\ UNCHANGED loc
                ELSE IF UserExists(username)
                THEN Return(t, "register", body, Json(409, "error", MsgExists))
                     /\ UNCHANGED loc
                ELSE /\ pc' = [pc EXCEPT ![t] = "reg_write"]
                     /\ req' = [req EXCEPT ![t] = [kind |-> "register", body |-> body]]
                     /\ loc' = [loc EXCEPT ![t] = [NoLoc EXCEPT !.username = username,
                                                               !.password = password]]
                     /\ UNCHANGED resp

\* register(), the assignment to memory_db["users"][username] and the 201.
RegisterWrite(t) ==
    /\ pc[t] = "reg_write"
    /\ UNCHANGED <<genai_errors, client, loc, contents, calls>>
    /\ IF loc[t].password.t # "str"
       THEN /\ Return(t, "register", req[t].body, Unhandled("AttributeError"))
            /\ UNCHANGED <<users, created>>
       ELSE \E salt \in Salts :
            /\ users' = Store(loc[t].username,
                              generate_password_hash(loc[t].password.v, salt))
            /\ created' = created \cup {<<loc[t].username, loc[t].password.v>>}
            /\ Return(t, "register", req[t].body, Json(201, "success", MsgRegistered))

\* ------------------------------------------------------------------ login

\* The response of login() for a body, read against the store.
LoginResponse(body) ==
    IF body.k \in {"none", "falsy"}
    THEN Json(400, "error", MsgInvalidJson)
    ELSE IF body.k = "nondict" \/ Get(body.username, NoText).t # "str"
    THEN Unhandled("AttributeError")
    ELSE LET username == Strip(Get(body.username, NoText).v)
             password == Get(body.password, NoText)
         IN  IF username = NoText \/ ~Truthy(password)
             THEN Json(400, "error", MsgRequired)
             ELSE IF username \notin DOMAIN users
             THEN Json(404, "error", MsgNotFound)
             ELSE IF password.t # "str"
             THEN Unhandled("AttributeError")
             ELSE IF ~check_password_hash(users[username], password.v)
             THEN Json(401, "error", MsgIncorrect)
             ELSE Json(200, "success", MsgLoginOk)

\* login(): it reads the store once and writes nothing.
Login(t, body) ==
    /\ pc[t] = "idle"
    /\ Return(t, "login", body, LoginResponse(body))
    /\ UNCHANGED <<genai_errors, client, users, loc, contents, calls, created>>

\* ------------------------------------------------------------------ summarize

\* client is None
ClientMissingNever == FALSE
ClientMissing == client = "None"

\* data.get("prompt", <the fixed instruction>).strip()
PromptTextNoDefault(body) == Strip(Get(body.prompt, NoText).v)
PromptText(body) == Strip(Get(body.prompt, DefaultPrompt).v)

\* The two parts of the request: the video reference and the text.
Contents(youtube_url, prompt_text) ==
    <<[file_uri |-> youtube_url, mime_type |-> "video/mp4", text |-> NoText],
      [file_uri |-> NoText, mime_type |-> "", text |-> prompt_text]>>

\* summarize(), from the client test to the call of generate_content.  Part,
\* FileData and Part.from_text are bound whenever client is, and they take any
\* two texts, so the except branch around the payload is never entered.
SummarizeBegin(t, body) ==
    /\ pc[t] = "idle"
    /\ UNCHANGED <<genai_errors, client, users, created>>
    /\ IF ClientMissing
       THEN Return(t, "summarize", body, Json(500, "error", MsgNoClient))
            /\ UNCHANGED <<loc, contents, calls>>
       ELSE IF body.k \in {"none", "falsy"}
       THEN Return(t, "summarize", body, Json(400, "error", MsgInvalidJson))
            /\ UNCHANGED <<loc, contents, calls>>
       ELSE IF \/ body.k = "nondict"
               \/ Get(body.url, NoText).t # "str"
               \/ Get(body.prompt, DefaultPrompt).t # "str"
       THEN Return(t, "summarize", body, Unhandled("AttributeError"))
            /\ UNCHANGED <<loc, contents, calls>>
       ELSE LET youtube_url == Strip(Get(body.url, NoText).v)
                prompt_text == PromptText(body)
            IN  IF youtube_url = NoText
                THEN Return(t, "summarize", body, Json(400, "error", MsgMissingUrl))
                     /\ UNCHANGED <<loc, contents, calls>>
                ELSE IF ~is_valid_youtube_url(youtube_url)
                THEN Return(t, "summarize", body, Json(400, "error", MsgInvalidUrl))
                     /\ UNCHANGED <<loc, contents, calls>>
                ELSE /\ pc' = [pc EXCEPT ![t] = "calling"]
                     /\ req' = [req EXCEPT ![t] = [kind |-> "summarize", body |-> body]]
                     /\ loc' = [loc EXCEPT ![t] = [NoLoc EXCEPT !.youtube_url = youtube_url,
                                                               !.prompt_text = prompt_text]]
                     /\ contents' = [contents EXCEPT ![t] = Contents(youtube_url, prompt_text)]
                     /\ calls' = [calls EXCEPT ![t] = calls[t] + 1]
                     /\ UNCHANGED resp

\* What generate_content did: it returned a response (text: the response's
\* text attribute, Null for None; repr: str(response)) or it raised (type: the
\* exception's class; msg: str(e)).
Returned(text, repr) == [ok |-> TRUE, text |-> text, repr |-> repr, type |-> "", msg |-> NoText]
Raised(type, msg) == [ok |-> FALSE, text |-> Null, repr |-> NoText, type |-> type, msg |-> msg]

\* isinstance(e, genai_errors.ClientError)
IsClientErrorAny(type) == TRUE
IsClientError(type) == type = "ClientError"

\* The quota test on str(e).
IsQuotaText(err_str) ==
    \/ Contains(err_str, NeedleResourceExhausted)
    \/ Contains(err_str, NeedleQuotaExceeded)
    \/ Contains(err_str, Needle429)

\* The except branch of summarize(): status code and message for an exception.
ErrorResponse(type, err_str) ==
    IF genai_errors # "None" /\ IsClientError(type) /\ IsQuotaText(err_str)
    THEN Json(429, "error", MsgQuota \o err_str)
    ELSE Json(500, "error", MsgGeminiError \o err_str)

\* summarize(), from the return of generate_content to the response.
SummarizeEnd(t, outcome) ==
    /\ pc[t] = "calling"
    /\ UNCHANGED <<genai_errors, client, users, contents, calls, created>>
    /\ loc' = [loc EXCEPT ![t].exc_type = outcome.type, ![t].err_str = outcome.msg]
    /\ IF outcome.ok
       THEN Return(t, "summarize", req[t].body,
                   JsonSummary(IF Truthy(outcome.text) THEN outcome.text.v
                               ELSE outcome.repr,
                               loc[t].youtube_url))
       ELSE Return(t, "summarize", req[t].body,
                   ErrorResponse(outcome.type, outcome.msg))

\* The response is sent and the worker takes the next request.
Respond(t) ==
    /\ pc[t] = "done"
    /\ pc' = [pc EXCEPT ![t] = "idle"]
    /\ req' = [req EXCEPT ![t] = NoReq]
    /\ loc' = [loc EXCEPT ![t] = NoLoc]
    /\ contents' = [contents EXCEPT ![t] = NoContents]
    /\ calls' = [calls EXCEPT ![t] = 0]
    /\ resp' = [resp EXCEPT ![t] = NoResp]
    /\ UNCHANGED <<genai_errors, client, users, created>>

\* ------------------------------------------------------------------ requests

AuthStep(t, AuthBodies) ==
    \/ \E body \in AuthBodies : RegisterBegin(t, body)
    \/ RegisterWrite(t)
    \/ \E body \in AuthBodies : Login(t, body)

SumStep(t, SumBodies, Outcomes) ==
    \/ \E body \in SumBodies : SummarizeBegin(t, body)
    \/ \E outcome \in Outcomes : SummarizeEnd(t, outcome)

\* No other worker is inside a handler.
Alone(t) == \A o \in Threads \ {t} : pc[o] \in {"idle", "done"}

UrlShort == <<"y", "o", "u", "t", "u", ".", "b", "e", "/", "x">>
UrlPadded == <<" ", "y", "o", "u", "t", "u", "b", "e", ".", "c", "o", "m", "/", "v", " ">>
UrlFtp == <<"f", "t", "p", ":", "/", "/", "y", "o", "u", "t", "u", "b", "e", ".", "c", "o", "m", "/", "x">>
UrlNoPath == <<"y", "o", "u", "t", "u", "b", "e", ".", "c", "o", "m">>
UrlWatch == <<"h", "t", "t", "p", "s", ":", "/", "/", "w", "w", "w", ".", "y", "o", "u", "t", "u", "b", "e", ".", "c", "o", "m", "/", "w", "a", "t", "c", "h", "?", "v", "=", "x">>
UrlAbc == <<"y", "o", "u", "t", "u", ".", "b", "e", "/", "a", "b", "c">>
UrlUpper == <<"h", "t", "t", "p", ":", "/", "/", "Y", "O", "U", "T", "U", "B", "E", ".", "C", "O", "M", "/", "x", "y", "z">>

\* Requests of the interleaved runs: a few of each kind of outcome.
AuthBodiesC ==
    {AuthBody(u, p) : u \in {Str(<<"a">>), Str(<<" ", "a">>), Null},
                      p \in {Str(<<"p">>), Str(<<"q">>)}}
    \cup {NoJsonBody}

SumBodiesC ==
    {SumBody(u, p) : u \in {Str(UrlShort), Str(UrlPadded), Str(UrlFtp), Str(<<" ">>),
                             Absent, Null},
                     p \in {Absent, Str(<<>>)}}
    \cup {NoJsonBody, FalsyBody, NonDictBody}

OutcomesC ==
    {Returned(Str(<<"s">>), <<"repr">>), Raised("ClientError", Needle429),
     Raised("Exception", <<"x">>)}

\* Requests of the runs that handle one request at a time.
AuthBodiesS ==
    {AuthBody(u, p) :
        u \in {Str(<<"a">>), Str(<<" ", "a">>), Str(<<"b">>), Str(<<>>), Str(<<" ">>)},
        p \in {Str(<<"p">>), Str(<<"q">>), Str(<<>>)}}
    \cup {AuthBody(Str(<<"a">>), Num("5")), NoJsonBody}

\* Requests and outcomes of the runs of summarize alone.
SumBodiesS ==
    {SumBody(u, p) :
        u \in {Str(UrlShort), Str(UrlPadded), Str(UrlFtp), Str(<<>>), Str(<<" ">>),
               Absent, Null},
        p \in {Absent, Str(<<>>), Str(<<" ">>), Str(<<" ", "h", "i">>), Null, Num("5")}}
    \cup {NoJsonBody, FalsyBody, NonDictBody}

ErrChars == {"4", "2", "9", "x"}

ErrTexts ==
    SeqsUpTo(ErrChars, MaxMsg)
    \cup {NeedleResourceExhausted, NeedleQuotaExceeded,
          <<"q", "u", "o", "t", "a", " ", "e", "x", "c", "e", "e", "d", "e", "d">>,
          <<"t", "i", "m", "e", "o", "u", "t">>,
          <<"e", "r", "r", " ">> \o NeedleResourceExhausted \o <<".">>}

ExceptionTypes == {"ClientError", "ServerError", "Exception"}

OutcomesS ==
    {Returned(text, <<"repr">>) : text \in {Null, Str(<<>>), Str(<<"s">>)}}
    \cup {Raised(type, msg) : type \in ExceptionTypes, msg \in ErrTexts}

\* URLs put together from a scheme, a www part, a host part and a tail.
UrlPads == {<<>>, <<" ">>}
UrlSchemes ==
    {<<>>, LitHttp, LitHttps, <<"H", "T", "T", "P", ":", "/", "/">>,
     <<"f", "t", "p", ":", "/", "/">>, <<"h", "t", "t", "p", ":", "/">>}
UrlWwws == {<<>>, LitWww, <<"W", "W", "W", ".">>, <<"m", ".">>}
UrlHosts ==
    {LitYoutubeCom, LitYoutuBe, UrlNoPath,
     <<"Y", "O", "U", "T", "U", "B", "E", ".", "C", "O", "M", "/">>,
     <<"Y", "o", "u", "t", "u", ".", "B", "e", "/">>,
     <<"y", "o", "u", "t", "u", ".", "b", "e">>,
     <<"v", "i", "m", "e", "o", ".", "c", "o", "m", "/">>}
UrlRests == SeqsUpTo({"x", " ", "LF"}, MaxRest)

UrlTexts ==
    {pad \o scheme \o www \o host \o rest :
        pad \in UrlPads, scheme \in UrlSchemes, www \in UrlWwws,
        host \in UrlHosts, rest \in UrlRests}
    \cup {UrlWatch, UrlAbc, UrlUpper, UrlFtp, UrlNoPath, <<>>}

UrlBodies == {SumBody(Str(u), Absent) : u \in UrlTexts}

\* ------------------------------------------------------------------ specifications

\* Workers handle requests concurrently, their steps interleaved.
Next ==
    \E t \in Threads :
        \/ AuthStep(t, AuthBodiesC)
        \/ SumStep(t, SumBodiesC, OutcomesC)
        \/ Respond(t)

Spec == Init /\ [][Next]_vars

\* One request is handled at a time; a worker that is done keeps its response
\* until it takes its next request.
SeqNext ==
    \E t \in Threads :
        \/ \E body \in AuthBodiesS : Alone(t) /\ RegisterBegin(t, body)
        \/ Alone(t) /\ RegisterWrite(t)
        \/ \E body \in AuthBodiesS : Alone(t) /\ Login(t, body)
        \/ Alone(t) /\ Respond(t)

SeqSpec == Init /\ [][SeqNext]_vars

\* One worker handles summarize requests, one after the other.
SumNext ==
    \/ SumStep(1, SumBodiesS, OutcomesS)
    \/ Respond(1)

SumSpec == Init /\ [][SumNext]_vars

\* One worker handles summarize requests over the enumerated URLs.
UrlNext ==
    \/ SumStep(1, UrlBodies, {Returned(Str(<<"s">>), <<"repr">>)})
    \/ Respond(1)

UrlSpec == Init /\ [][UrlNext]_vars

\* ------------------------------------------------------------------ properties

\* Worker t has answered a request of this kind.
IsDone(t, kind) == pc[t] = "done" /\ req[t].kind = kind

\* Worker t takes a request of this kind in the step.
Takes(t, kind) == pc[t] = "idle" /\ pc'[t] # "idle" /\ req'[t].kind = kind

\* The body is an object whose field has a text value.
HasText(val) == val.t = "str"

\* C1: a run of summarize calls the external service at most once, and only
\* with the client initialised, a parsed body and a stripped url that is not
\* empty and matches YOUTUBE_RE; a request answered with 400 or with the
\* client-not-initialised 500 made no call; register and login make none.
C1_CallOnlyWhenValid ==
    \A t \in Threads :
        /\ calls[t] \in {0, 1}
        /\ calls[t] = 1 =>
            /\ req[t].kind = "summarize"
            /\ client = "Client"
            /\ req[t].body.k = "obj"
            /\ HasText(req[t].body.url)
            /\ Strip(req[t].body.url.v) # <<>>
            /\ YoutubeReMatch(Strip(req[t].body.url.v))
            /\ contents[t][1].file_uri = Strip(req[t].body.url.v)
        /\ (pc[t] = "done" /\ (resp[t].code = 400 \/ resp[t].message = MsgNoClient))
            => calls[t] = 0
        /\ req[t].kind \in {"register", "login"} => calls[t] = 0

C1_Witness ==
    \E t1, t2 \in Threads :
        /\ IsDone(t1, "summarize") /\ resp[t1].code = 200 /\ calls[t1] = 1
        /\ IsDone(t2, "summarize") /\ resp[t2].message = MsgInvalidUrl /\ calls[t2] = 0

\* C9: with the client not initialised every summarize request is answered
\* with the client-not-initialised 500, whatever its body, and makes no call;
\* no step changes the client handle.
C9_ClientCheckFirst ==
    /\ [](\A t \in Threads :
            (req[t].kind = "summarize" /\ client = "None") =>
                /\ pc[t] = "done"
                /\ resp[t] = Json(500, "error", MsgNoClient)
                /\ calls[t] = 0)
    /\ [][client' = client /\ genai_errors' = genai_errors]_vars

C9_Witness ==
    \E t1, t2 \in Threads :
        /\ client = "None"
        /\ IsDone(t1, "summarize") /\ req[t1].body = SumBody(Str(UrlShort), Absent)
        /\ IsDone(t2, "summarize") /\ req[t2].body = NoJsonBody
        /\ resp[t1].code = 500 /\ resp[t2].code = 500

\* C8: every answered request carries a JSON object with a status and a
\* message (or a summary); no exception leaves the handler.
C8_AlwaysJson ==
    \A t \in Threads :
        pc[t] = "done" =>
            /\ resp[t].json
            /\ resp[t].status \in {"success", "error"}
            /\ resp[t].message # NoText \/ resp[t].summary # NoText

\* C4: of two register requests for one unregistered username handled
\* concurrently, never both return Created.
C4_OneCreated ==
    \A t1, t2 \in Threads :
        (/\ t1 # t2
         /\ IsDone(t1, "register") /\ resp[t1].code = 201
         /\ IsDone(t2, "register") /\ resp[t2].code = 201)
        => loc[t1].username # loc[t2].username

\* C10: a user record is never updated or deleted: every step keeps each
\* stored username with the hash it has.
C10_RecordsKept ==
    [][\A n \in DOMAIN users : n \in DOMAIN users' /\ users'[n] = users[n]]_vars

\* A non-empty text password.
IsPassword(val) == HasText(val) /\ val.v # <<>>

\* The first register of a username: when worker t takes a register request for
\* a username that Fresh admits, it goes on to the write, and the write
\* answers 201.
FirstRegisterCreated(Fresh(_)) ==
    \A t \in Threads :
        /\ (/\ Takes(t, "register")
            /\ req'[t].body.k = "obj"
            /\ HasText(req'[t].body.username)
            /\ IsPassword(req'[t].body.password)
            /\ Fresh(req'[t].body.username.v))
           => pc'[t] = "reg_write"
        /\ (/\ pc[t] = "reg_write" /\ pc'[t] = "done"
            /\ IsPassword(req[t].body.password))
           => /\ resp'[t].code = 201
              /\ loc[t].username \in DOMAIN users'
              /\ check_password_hash(users'[loc[t].username], req[t].body.password.v)

\* The register that follows a Created one for the same username: it answers
\* 409 whatever its password, and the store keeps the one record of the first.
SecondRegisterExists ==
    \A t1, t2 \in Threads :
        (/\ t1 # t2
         /\ IsDone(t1, "register") /\ resp[t1].code = 201
         /\ Takes(t2, "register")
         /\ req'[t2].body.k = "obj"
         /\ req'[t2].body.username = req[t1].body.username
         /\ IsPassword(req'[t2].body.password))
        => /\ pc'[t2] = "done"
           /\ resp'[t2] = Json(409, "error", MsgExists)
           /\ users' = users
           /\ loc[t1].username \in DOMAIN users
           /\ check_password_hash(users[loc[t1].username], req[t1].body.password.v)

\* C2, as claimed: for every (non-empty) username u that is not in the store and non-empty
\* passwords p, p', register(u, p) then register(u, p') answer 201 then 409,
\* and the store holds one record for u.
C2_AsClaimed ==
    [][/\ FirstRegisterCreated(LAMBDA u : u # <<>> /\ u \notin DOMAIN users)
       /\ SecondRegisterExists]_vars

\* C2, amended: the same for every username u that is not empty after
\* stripping white space and whose stripped form is not in the store.
C2_RegisterTwice ==
    [][/\ FirstRegisterCreated(LAMBDA u : Strip(u) # <<>> /\ Strip(u) \notin DOMAIN users)
       /\ SecondRegisterExists]_vars

C2_Witness ==
    \E t1, t2 \in Threads :
        /\ IsDone(t1, "register") /\ resp[t1].code = 201
        /\ IsDone(t2, "register") /\ resp[t2].code = 409
        /\ req[t1].body.username = Str(<<" ", "a">>)
        /\ req[t2].body.username = req[t1].body.username
        /\ req[t2].body.password # req[t1].body.password
        /\ DOMAIN users = {<<"a">>}

\* Usernames some register answered 201 for.
CreatedNames == {c[1] : c \in created}

\* The login of a registered pair succeeds and that of a registered username
\* with another non-empty password answers 401.
LoginOfRegistered(t) ==
    LET u == Strip(req'[t].body.username.v)
        p == req'[t].body.password.v
    IN  /\ <<u, p>> \in created => resp'[t] = Json(200, "success", MsgLoginOk)
        /\ (u \in CreatedNames /\ <<u, p>> \notin created /\ p # <<>>)
            => resp'[t] = Json(401, "error", MsgIncorrect)

\* A login request with text fields is answered in the step.
LoginStep(t) ==
    /\ Takes(t, "login")
    /\ req'[t].body.k = "obj"
    /\ HasText(req'[t].body.username)
    /\ HasText(req'[t].body.password)

\* C3, as claimed: login(u, p) of a pair registered with Created answers 200,
\* login(u, p_wrong) answers 401, and login with any (non-empty) username that
\* was never registered answers 404.
C3_AsClaimed ==
    [][\A t \in Threads :
        LoginStep(t) =>
            /\ LoginOfRegistered(t)
            /\ (/\ req'[t].body.username.v # <<>>
                /\ Strip(req'[t].body.username.v) \notin CreatedNames)
                => resp'[t].code = 404]_vars

\* C3, amended: the 404 is the answer for a never registered username that is
\* not empty after stripping, sent with a non-empty password; with an empty
\* username or password the answer is 400.
C3_Login ==
    [][\A t \in Threads :
        LoginStep(t) =>
            /\ LoginOfRegistered(t)
            /\ Strip(req'[t].body.username.v) \notin CreatedNames
                => IF /\ Strip(req'[t].body.username.v) # <<>>
                      /\ req'[t].body.password.v # <<>>
                   THEN resp'[t] = Json(404, "error", MsgNotFound)
                   ELSE resp'[t] = Json(400, "error", MsgRequired)]_vars

C3_Witness ==
    \E t1, t2 \in Threads :
        /\ <<<<"a">>, <<"p">>>> \in created
        /\ IsDone(t1, "login") /\ resp[t1].code = 200
        /\ IsDone(t2, "login") /\ resp[t2].code = 401
        /\ req[t1].body = AuthBody(Str(<<" ", "a">>), Str(<<"p">>))
        /\ req[t2].body = AuthBody(Str(<<"a">>), Str(<<"q">>))

C3_WitnessNotFound ==
    \E t \in Threads :
        /\ CreatedNames = {<<"a">>}
        /\ IsDone(t, "login") /\ resp[t].code = 404
        /\ req[t].body = AuthBody(Str(<<"b">>), Str(<<"p">>))

\* The external call of worker t raised.
HasRaised(t) == IsDone(t, "summarize") /\ loc[t].exc_type # ""

\* The error text holds one of the three quota markers.
QuotaMarked(text) ==
    \E needle \in {NeedleResourceExhausted, NeedleQuotaExceeded, Needle429} :
        Contains(text, needle)

\* C5, as claimed: whatever the type of the exception, an error text with a
\* quota marker gives 429 with the remediation message and the raw text, and
\* one without gives 500 with the raw text.
C5_AsClaimed ==
    \A t \in Threads :
        HasRaised(t) =>
            IF QuotaMarked(loc[t].err_str)
            THEN resp[t] = Json(429, "error", MsgQuota \o loc[t].err_str)
            ELSE resp[t] = Json(500, "error", MsgGeminiError \o loc[t].err_str)

\* C5, amended: the 429 is given only to an exception that is a ClientError of
\* the SDK and whose text holds a quota marker; every other exception, also
\* one whose text holds a marker, gives 500 with the raw text.
C5_Classification ==
    \A t \in Threads :
        HasRaised(t) =>
            IF loc[t].exc_type = "ClientError" /\ QuotaMarked(loc[t].err_str)
            THEN resp[t] = Json(429, "error", MsgQuota \o loc[t].err_str)
            ELSE resp[t] = Json(500, "error", MsgGeminiError \o loc[t].err_str)

C5_Witness ==
    \E t \in Threads :
        /\ HasRaised(t)
        /\ loc[t].exc_type = "Exception"
        /\ loc[t].err_str = Needle429
        /\ resp[t].code = 500

C5_WitnessQuota ==
    \E t \in Threads :
        /\ HasRaised(t)
        /\ loc[t].exc_type = "ClientError"
        /\ loc[t].err_str = <<"e", "r", "r", " ">> \o NeedleResourceExhausted \o <<".">>
        /\ resp[t].code = 429

\* Worker t handles a summarize request that passes the client, body and url
\* checks.
PassesUrlChecks(t) ==
    /\ req[t].kind = "summarize"
    /\ client = "Client"
    /\ req[t].body.k = "obj"
    /\ HasText(req[t].body.url)
    /\ YoutubeReMatch(Strip(req[t].body.url.v))

\* A missing prompt is sent as the fixed instruction text.
MissingPromptDefaulted(t) ==
    (PassesUrlChecks(t) /\ req[t].body.prompt = Absent)
        => /\ calls[t] = 1
           /\ contents[t][2].text = DefaultPrompt

\* The prompt is given as text that is empty after stripping.
EmptyPrompt(t) ==
    /\ req[t].kind = "summarize"
    /\ HasText(req[t].body.prompt)
    /\ Strip(req[t].body.prompt.v) = <<>>

\* C6, as claimed: a missing prompt is replaced by the fixed text, and a
\* request whose prompt is empty is answered 400 and not forwarded.
C6_AsClaimed ==
    \A t \in Threads :
        /\ MissingPromptDefaulted(t)
        /\ (PassesUrlChecks(t) /\ EmptyPrompt(t))
            => /\ calls[t] = 0
               /\ pc[t] = "done"
               /\ resp[t].code = 400

\* C6, amended: a missing prompt is replaced by the fixed text; the prompt is
\* not validated: a request with an empty or white-space prompt that passes the
\* other checks is forwarded with an empty text part and never answered 400.
C6_PromptNotValidated ==
    \A t \in Threads :
        /\ MissingPromptDefaulted(t)
        /\ (PassesUrlChecks(t) /\ EmptyPrompt(t))
            => /\ calls[t] = 1
               /\ contents[t][2].text = <<>>
               /\ resp[t].code # 400

C6_Witness ==
    \E t \in Threads :
        /\ IsDone(t, "summarize")
        /\ req[t].body = SumBody(Str(UrlPadded), Str(<<" ">>))
        /\ resp[t].code = 200
        /\ calls[t] = 1

C6_WitnessDefault ==
    \E t \in Threads :
        /\ pc[t] = "calling"
        /\ req[t].body.prompt = Absent
        /\ contents[t][2].text = DefaultPrompt

\* s begins with the lower-case literal lit, ignoring case.
StartsWith(s, lit) ==
    /\ Len(s) >= Len(lit)
    /\ [k \in 1..Len(lit) |-> Lower(s[k])] = lit

\* s without the leading literal, when it begins with it.
WithoutPrefix(s, lit) ==
    IF StartsWith(s, lit) THEN SubSeq(s, Len(lit) + 1, Len(s)) ELSE s

\* url after removing an optional leading http:// or https:// and then an
\* optional www.
WithoutSchemeAndWww(url) ==
    LET noScheme == IF StartsWith(url, LitHttps) THEN WithoutPrefix(url, LitHttps)
                    ELSE WithoutPrefix(url, LitHttp)
    IN  WithoutPrefix(noScheme, LitWww)

\* The accepted shape as the claim words it: youtube.com/ or youtu.be/, then at
\* least one more character admitted by Follows.
AcceptedShape(url, Follows(_)) ==
    LET rest == WithoutSchemeAndWww(url)
    IN  \E host \in {LitYoutubeCom, LitYoutuBe} :
            /\ StartsWith(rest, host)
            /\ Len(rest) > Len(host)
            /\ Follows(rest[Len(host) + 1])

\* Worker t handles a summarize request that reaches the url checks.
ReachesUrlChecks(t) ==
    /\ req[t].kind = "summarize"
    /\ client = "Client"
    /\ req[t].body.k = "obj"
    /\ HasText(req[t].body.url)
    /\ req[t].body.prompt = Absent

\* The request of worker t is forwarded exactly when its stripped url has the
\* shape, and is answered 400 otherwise; the six URLs of the specification
\* fall as it lists them.
ShapeDecides(t, Follows(_)) ==
    ReachesUrlChecks(t) =>
        /\ calls[t] = 1 <=> AcceptedShape(Strip(req[t].body.url.v), Follows)
        /\ calls[t] = 0 => (pc[t] = "done" /\ resp[t].code = 400)
        /\ req[t].body.url.v \in {UrlWatch, UrlAbc, UrlUpper} => calls[t] = 1
        /\ req[t].body.url.v \in {UrlFtp, UrlNoPath, <<>>} => resp[t].code = 400

\* C7, as claimed: a URL is accepted exactly when, after an optional scheme
\* and an optional www., it begins with youtube.com/ or youtu.be/ followed by
\* at least one more character.
C7_AsClaimed == \A t \in Threads : ShapeDecides(t, LAMBDA c : TRUE)

\* C7, amended: the character that follows youtube.com/ or youtu.be/ must not
\* be a line feed.
C7_UrlShape == \A t \in Threads : ShapeDecides(t, LAMBDA c : c # "LF")

C7_Witness ==
    \E t \in Threads :
        /\ ReachesUrlChecks(t)
        /\ req[t].body.url.v = <<" ">> \o <<"H", "T", "T", "P", ":", "/", "/">>
                                \o <<"W", "W", "W", ".">>
                                \o <<"Y", "o", "u", "t", "u", ".", "B", "e", "/">>
                                \o <<"x", " ">>
        /\ IsDone(t, "summarize") /\ resp[t].code = 200

C7_WitnessRejected ==
    \E t \in Threads :
        /\ ReachesUrlChecks(t)
        /\ req[t].body.url.v = LitYoutubeCom \o <<"LF", "x">>
        /\ IsDone(t, "summarize") /\ resp[t] = Json(400, "error", MsgInvalidUrl)

====
